---- MODULE Spec2Model ----
(***************************************************************************)
(* Model of go-log (go.markdumay.org/log): the package-level logger        *)
(* _logger, its hold/flush buffer, the level filter of the zerolog         *)
(* handler it wraps, the Fatal functions and the writer registry; the      *)
(* Buffer of a BufferedWriter; the text of the records in each format,     *)
(* ParseFormat and UnmarshalLog; Logger.Write; and a leveled call racing   *)
(* with Flush().                                                           *)
(***************************************************************************)
EXTENDS Integers, Sequences, FiniteSets, TLC

VARIABLES
    format,        \* _logger.format
    noColor,       \* _logger.noColor
    writers,       \* _logger.writers: the writers the handler fans out to, in order
    buffer,        \* _logger.buffer: the Messages queued while hold is set
    hold,          \* _logger.hold
    gLevel,        \* zerolog's global level (SetGlobalLevel / GlobalLevel)
    suppressExit,  \* _suppressExit
    exits,         \* the exit codes passed to os.Exit (empty while the process runs)
    wformat,       \* format field of every writer object
    wnoColor,      \* noColor field of every writer object
    out,           \* the writes the last API call made on the writers, in order
    call,          \* the last API call: its kind, its level argument, and the
                   \* queue length and hold flag it found on entry
    pc,            \* "idle" between API calls, "exit" inside Fatal, Fatalf or
                   \* FatalE after the event went to the handler
    heap,          \* the backing arrays of the Buffer slices: their cells
    store,         \* the Buffer of the BufferedWriter "w1": a slice (array, length)
    snap,          \* the slice a caller holds from BufferedWriter.Buffer()
    ret,           \* what the last Write of a Buffer or of the Logger returned
    arg,           \* the bytes that Write was given
    res,           \* the last call of ParseFormat: its argument and its results
    th             \* the goroutines of a leveled call and a Flush() that run
                   \* at once: their positions and what they have read

\* The variables of the BufferedWriter's storage
bvars == <<heap, store, snap, ret, arg>>

\* The variables only the calls that own them change
ovars == <<res, th>>

vars == <<format, noColor, writers, buffer, hold, gLevel, suppressExit, exits,
          wformat, wnoColor, out, call, pc, heap, store, snap, ret, arg, res, th>>

----------------------------------------------------------------------------
\* Format enumeration
Default == 0
Pretty == 1
JSON == 2
Formats == {Default, Pretty, JSON}

\* Level enumeration (the values of zerolog.Level)
TraceLevel == -1
DebugLevel == 0
InfoLevel == 1
WarnLevel == 2
ErrorLevel == 3
FatalLevel == 4
PanicLevel == 5
NoLevel == 6
Disabled == 7
Levels == {TraceLevel, DebugLevel, InfoLevel, WarnLevel, ErrorLevel,
           FatalLevel, PanicLevel, NoLevel, Disabled}

\* Bounds of the model
MaxBuffer == 2
MaxWriters == 2

\* The writer objects: the console writer NewLogger creates on os.Stdout and
\* the writers the caller constructs and registers.
Stdout == "stdout"
UserWriters == {"w1", "w2"}
WriterIds == {Stdout} \cup UserWriters

\* The backing arrays a Buffer slice can point to; NilArr is the nil slice
ArrayIds == 1..3
NilArr == 0

\* Errors attached by the E variants (NoErr is Go's nil error)
NoErr == "<nil>"
Errs == {NoErr, "e"}

\* No leveled call and no Flush() under way in a goroutine of its own: f and l
\* are the positions of the two, level the level of the call, saw the value
\* of hold the call read, q the queue it read, at the position Flush() had
\* when the call stored the queue
Idle == [f |-> "idle", l |-> "idle", level |-> NoLevel, saw |-> FALSE, q |-> <<>>,
         at |-> "idle"]

----------------------------------------------------------------------------
\* fmt.Sprintf over a format given as its pieces: each verb takes the next
\* argument, every other piece is copied.
RECURSIVE Sprintf(_, _)
Sprintf(fmt, v) ==
    IF fmt = <<>> THEN ""
    ELSE IF Head(fmt) \in {"%s", "%d"} /\ v # <<>>
         THEN Head(v) \o Sprintf(Tail(fmt), Tail(v))
         ELSE Head(fmt) \o Sprintf(Tail(fmt), v)

\* A format string used as it stands: its pieces joined
RECURSIVE Join(_)
Join(msg) == IF msg = <<>> THEN "" ELSE Head(msg) \o Join(Tail(msg))

\* The message text log() builds: Sprintf only when variadic arguments came
Text(msg, v) == IF v # <<>> THEN Sprintf(msg, v) ELSE Join(msg)

\* Message: a record queued by log() while the logger holds
Message(level, m, err) == [Level |-> level, Message |-> m, err |-> err]

\* A filter that drops the records at the minimum level itself
shouldStrict(lvl) == lvl > gLevel

\* zerolog's Logger.should: the handler's own level is TraceLevel, so the
\* global level decides.
should(lvl) == lvl >= gLevel

\* A handler that lets Fatal and Panic events through whatever the global level is
WithLevelFatalAlways(level) ==
    level # Disabled /\ (should(level) \/ level \in {FatalLevel, PanicLevel})

\* zerolog's Logger.WithLevel(level): no event for Disabled, otherwise an event
\* when should(level).
WithLevel(level) == level # Disabled /\ should(level)

\* A handler whose writers all render in the Default format
FanoutDefault(ws, wf, wnc, level, m, err) ==
    [i \in 1..Len(ws) |->
        [w |-> ws[i], Level |-> level, Message |-> m, err |-> err,
         format |-> Default, noColor |-> wnc[ws[i]]]]

\* What one handler event writes: one write per writer of ws, in list order,
\* each rendered with that writer's own format.
Fanout(ws, wf, wnc, level, m, err) ==
    [i \in 1..Len(ws) |->
        [w |-> ws[i], Level |-> level, Message |-> m, err |-> err,
         format |-> wf[ws[i]], noColor |-> wnc[ws[i]]]]

\* _logger.handler.WithLevel(level)[.Err(err)].Msg(m) with the handler of the
\* current logger
Emit(level, m, err) ==
    IF WithLevel(level) THEN Fanout(writers, wformat, wnoColor, level, m, err)
    ELSE <<>>

\* The process runs and no API call is in progress
Running == exits = <<>> /\ pc = "idle"

\* The record of an API call
Call(op, level) == [op |-> op, level |-> level, n |-> Len(buffer), held |-> hold]

----------------------------------------------------------------------------
Init ==
    /\ format = Default
    /\ noColor = FALSE
    /\ writers = <<Stdout>>
    /\ buffer = <<>>
    /\ hold = FALSE
    /\ gLevel = DebugLevel
    /\ suppressExit = FALSE
    /\ exits = <<>>
    /\ wformat = [w \in WriterIds |-> IF w = Stdout THEN Default ELSE JSON]
    /\ wnoColor = [w \in WriterIds |-> FALSE]
    /\ out = <<>>
    /\ call = [op |-> "init", level |-> NoLevel, n |-> 0, held |-> FALSE]
    /\ pc = "idle"
    /\ heap = [a \in ArrayIds |-> <<>>]
    /\ store = [a |-> 1, len |-> 0]
    /\ snap = [a |-> NilArr, len |-> 0]
    /\ ret = [n |-> 0, err |-> NoErr]
    /\ arg = <<>>
    /\ res = [arg |-> <<>>, value |-> Default, err |-> NoErr]
    /\ th = Idle

\* A queue that takes the new Message at its front
QueueFront(q, level, m, err) == <<Message(level, m, err)>> \o q

\* The queue after log()'s append of a Message
Queue(q, level, m, err) == Append(q, Message(level, m, err))

\* The statements of log(level, msg, err, v...): the Message is queued while
\* the logger holds and goes to the handler otherwise
logBody(op, level, msg, err, v) ==
    /\ Running
    /\ IF hold
       THEN /\ Len(buffer) < MaxBuffer
            /\ buffer' = Queue(buffer, level, Text(msg, v), err)
            /\ out' = <<>>
       ELSE /\ buffer' = buffer
            /\ out' = Emit(level, Text(msg, v), err)
    /\ call' = Call(op, level)
    /\ UNCHANGED <<pc, format, noColor, writers, hold, gLevel, suppressExit, exits,
                   wformat, wnoColor>>

\* log(level, msg, err, v...), the destinations of the writers not followed
log(op, level, msg, err, v) ==
    /\ logBody(op, level, msg, err, v)
    /\ UNCHANGED <<bvars, ovars>>

\* Debug, Info, Warn, Error (msg)
Leveled(level) == log("log", level, <<"m">>, NoErr, <<>>)

\* Debugf, Infof, Warnf, Errorf (format, v...)
Leveledf(level) == log("log", level, <<"%s">>, NoErr, <<"m">>)

\* DebugE, InfoE, WarnE, ErrorE (e, msg)
LeveledE(level, e) == log("log", level, <<"m">>, e, <<>>)

\* Msg(level, msg)
Msg(level) == log("log", level, <<"m">>, NoErr, <<>>)

\* Msgf(level, format, v...)
Msgf(level) == log("log", level, <<"%s">>, NoErr, <<"m">>)

\* MsgE(level, e, msg)
MsgE(level, e) == log("log", level, <<"m">>, e, <<>>)

\* The first statement of Fatal, Fatalf and FatalE: the event goes to the
\* handler whatever hold is.
fatal(op, m, err) ==
    /\ Running
    /\ out' = Emit(FatalLevel, m, err)
    /\ call' = Call(op, FatalLevel)
    /\ pc' = "exit"
    /\ UNCHANGED <<format, noColor, writers, buffer, hold, gLevel, suppressExit,
                   exits, wformat, wnoColor>>
    /\ UNCHANGED <<bvars, ovars>>

\* An exit that ignores _suppressExit
ShouldExitAlways == TRUE

\* The condition of the os.Exit in Fatal, Fatalf and FatalE
ShouldExit == ~suppressExit

\* The second statement of Fatal, Fatalf and FatalE: os.Exit(1) unless
\* _suppressExit, otherwise the call returns.
FatalExit ==
    /\ exits = <<>>
    /\ pc = "exit"
    /\ exits' = IF ShouldExit THEN Append(exits, 1) ELSE exits
    /\ pc' = "idle"
    /\ UNCHANGED <<format, noColor, writers, buffer, hold, gLevel, suppressExit,
                   wformat, wnoColor, out, call>>
    /\ UNCHANGED <<bvars, ovars>>

\* Fatal(msg)
Fatal == fatal("fatal", Join(<<"m">>), NoErr)

\* Fatalf(format, v...)
Fatalf == fatal("fatal", Sprintf(<<"%s">>, <<"m">>), NoErr)

\* FatalE(e, msg)
FatalE(e) == fatal("fatal", Join(<<"m">>), e)

\* Hold()
Hold ==
    /\ Running
    /\ hold' = TRUE
    /\ out' = <<>>
    /\ call' = Call("Hold", NoLevel)
    /\ UNCHANGED <<pc, format, noColor, writers, buffer, gLevel, suppressExit, exits,
                   wformat, wnoColor>>
    /\ UNCHANGED <<bvars, ovars>>

\* A replay that walks the queue from its end
RECURSIVE ReplayReversed(_)
ReplayReversed(q) ==
    IF q = <<>> THEN <<>>
    ELSE ReplayReversed(Tail(q)) \o Emit(Head(q).Level, Head(q).Message, Head(q).err)

\* The writes of Flush's loop: log(l.Level, l.Message, l.err) for every queued
\* Message in queue order, with hold already cleared.
RECURSIVE Replay(_)
Replay(q) ==
    IF q = <<>> THEN <<>>
    ELSE Emit(Head(q).Level, Head(q).Message, Head(q).err) \o Replay(Tail(q))

\* A Flush without its Debugf
FlushNoteNever(q) == <<>>

\* A Flush whose Debugf does not look at the queue length
FlushNoteAlways(q) ==
    Emit(DebugLevel,
         Sprintf(<<"Flushing buffer with ", "%d", " log(s)">>, <<ToString(Len(q))>>),
         NoErr)

\* The Debugf Flush makes before the loop when the queue is not empty
FlushNote(q) ==
    IF Len(q) > 0
    THEN Emit(DebugLevel,
              Sprintf(<<"Flushing buffer with ", "%d", " log(s)">>, <<ToString(Len(q))>>),
              NoErr)
    ELSE <<>>

\* Flush()
Flush ==
    /\ Running
    /\ hold' = FALSE
    /\ out' = FlushNote(buffer) \o Replay(buffer)
    /\ buffer' = <<>>
    /\ call' = Call("Flush", NoLevel)
    /\ UNCHANGED <<pc, format, noColor, writers, gLevel, suppressExit, exits,
                   wformat, wnoColor>>
    /\ UNCHANGED <<bvars, ovars>>

\* SetGlobalLevel(l)
SetGlobalLevel(l) ==
    /\ Running
    /\ gLevel' = l
    /\ out' = <<>>
    /\ call' = Call("SetGlobalLevel", l)
    /\ UNCHANGED <<pc, format, noColor, writers, buffer, hold, suppressExit, exits,
                   wformat, wnoColor>>
    /\ UNCHANGED <<bvars, ovars>>

\* _suppressExit = b (the tests' switch)
SetSuppressExit(b) ==
    /\ Running
    /\ suppressExit' = b
    /\ out' = <<>>
    /\ call' = Call("SetSuppressExit", NoLevel)
    /\ UNCHANGED <<pc, format, noColor, writers, buffer, hold, gLevel, exits,
                   wformat, wnoColor>>
    /\ UNCHANGED <<bvars, ovars>>

Range(s) == {s[i] : i \in 1..Len(s)}

\* A NewLogger that takes the list as it is given
NewWritersGiven(ws) == ws

\* The writer list NewLogger builds: a console writer on os.Stdout when none
\* is given.
NewWriters(ws) == IF Len(ws) = 0 THEN <<Stdout>> ELSE ws

\* A reinitialisation that leaves the new Logger's buffer in place
RestoredBufferFresh(old, fresh) == fresh

\* InitLoggerWithWriter's b := _logger.buffer ... _logger.buffer = b: the old
\* queue replaces the buffer NewLogger made
RestoredBuffer(old, fresh) == old

\* NewLogger(f, nc, ws...) as called by InitLoggerWithWriter, which keeps the
\* old buffer: a new Logger (hold is its zero value) whose writers all carry
\* the formatting (f, nc).
InitLoggerWithWriter(op, f, nc, ws) ==
    /\ Running
    /\ format' = f
    /\ noColor' = nc
    /\ writers' = NewWriters(ws)
    /\ wformat' = [w \in UserWriters \cup Range(NewWriters(ws)) |->
                      IF w \in Range(NewWriters(ws)) THEN f ELSE wformat[w]]
    /\ wnoColor' = [w \in UserWriters \cup Range(NewWriters(ws)) |->
                      IF w \in Range(NewWriters(ws)) THEN nc ELSE wnoColor[w]]
    /\ hold' = FALSE
    /\ buffer' = RestoredBuffer(buffer, <<>>)
    /\ out' = <<>>
    /\ call' = Call(op, NoLevel)
    /\ UNCHANGED <<pc, gLevel, suppressExit, exits>>
    /\ UNCHANGED <<bvars, ovars>>

\* InitLogger(f)
InitLogger(f) == InitLoggerWithWriter("InitLogger", f, TRUE, <<>>)

\* A search that runs to the end of the list and answers the last match
getWriterIndexLast(w) ==
    IF \E i \in 1..Len(writers) : writers[i] = w
    THEN CHOOSE i \in 1..Len(writers) :
            writers[i] = w /\ \A j \in (i + 1)..Len(writers) : writers[j] # w
    ELSE -1

\* getWriterIndex(w): the first index of w in the writer list, -1 if absent
getWriterIndex(w) ==
    IF \E i \in 1..Len(writers) : writers[i] = w
    THEN CHOOSE i \in 1..Len(writers) :
            writers[i] = w /\ \A j \in 1..(i - 1) : writers[j] # w
    ELSE -1

\* AppendWriter(w)
AppendWriter(w) ==
    /\ Len(writers) < MaxWriters
    /\ InitLoggerWithWriter("AppendWriter", format, noColor, Append(writers, w))

\* A RemoveWriter that reinitialises the logger also when w is not found
RemoveWriterAlways(w) ==
    InitLoggerWithWriter("RemoveWriter", format, noColor,
        IF getWriterIndex(w) >= 1
        THEN SubSeq(writers, 1, getWriterIndex(w) - 1)
             \o SubSeq(writers, getWriterIndex(w) + 1, Len(writers))
        ELSE writers)

\* RemoveWriter(w)
RemoveWriter(w) ==
    IF getWriterIndex(w) >= 1
    THEN InitLoggerWithWriter("RemoveWriter", format, noColor,
            SubSeq(writers, 1, getWriterIndex(w) - 1)
            \o SubSeq(writers, getWriterIndex(w) + 1, Len(writers)))
    ELSE /\ Running
         /\ out' = <<>>
         /\ call' = Call("RemoveWriter", NoLevel)
         /\ UNCHANGED <<pc, format, noColor, writers, buffer, hold, gLevel,
                        suppressExit, exits, wformat, wnoColor>>
         /\ UNCHANGED <<bvars, ovars>>

\* UpdateWriter(old, new)
UpdateWriter(old, new) ==
    IF getWriterIndex(old) < 1
    THEN /\ Running
         /\ out' = <<>>
         /\ call' = Call("UpdateWriterError", NoLevel)
         /\ UNCHANGED <<pc, format, noColor, writers, buffer, hold, gLevel,
                        suppressExit, exits, wformat, wnoColor>>
         /\ UNCHANGED <<bvars, ovars>>
    ELSE InitLoggerWithWriter("UpdateWriter", format, noColor,
            [writers EXCEPT ![getWriterIndex(old)] = new])

\* A loop that reconfigures the first writer of the list only
ReconfiguredFirst(wf, x) ==
    [w \in DOMAIN wf |-> IF w = writers[1] THEN x ELSE wf[w]]

\* The loop of SetFormatting: every writer of the list takes the value x in the
\* field wf, the other writer objects keep theirs
Reconfigured(wf, x) ==
    [w \in DOMAIN wf |-> IF w \in Range(writers) THEN x ELSE wf[w]]

\* A SetFormatting that replaces the logger as a reinitialisation does
SetFormattingReinit(f, nc) ==
    InitLoggerWithWriter("SetFormatting", f, nc, writers)

\* SetFormatting(f, nc)
SetFormatting(f, nc) ==
    /\ Running
    /\ format' = f
    /\ noColor' = nc
    /\ wformat' = Reconfigured(wformat, f)
    /\ wnoColor' = Reconfigured(wnoColor, nc)
    /\ out' = <<>>
    /\ call' = Call("SetFormatting", NoLevel)
    /\ UNCHANGED <<pc, writers, buffer, hold, gLevel, suppressExit, exits>>
    /\ UNCHANGED <<bvars, ovars>>

\* w.SetFormatting(f, nc) called on a writer object itself
WriterSetFormatting(w, f, nc) ==
    /\ Running
    /\ wformat' = [wformat EXCEPT ![w] = f]
    /\ wnoColor' = [wnoColor EXCEPT ![w] = nc]
    /\ out' = <<>>
    /\ call' = Call("WriterSetFormatting", NoLevel)
    /\ UNCHANGED <<pc, format, noColor, writers, buffer, hold, gLevel, suppressExit,
                   exits>>
    /\ UNCHANGED <<bvars, ovars>>

\* A Bypass whose event meets the global level the caller had set
BypassShouldCurrent(lvl) == should(lvl)

\* zerolog's should() for the event of Bypass: the global level is InfoLevel
\* when the event is made
BypassShould(lvl) == lvl >= InfoLevel

\* Bypass(msg): SetFormatting(Default, true) and global level Info, one Info
\* event straight to the handler, then the deferred SetFormatting(format,
\* noColor) and SetGlobalLevel(level) put the saved values back.
Bypass ==
    /\ Running
    /\ out' = IF BypassShould(InfoLevel)
              THEN Fanout(writers, Reconfigured(wformat, Default),
                          Reconfigured(wnoColor, TRUE), InfoLevel, Join(<<"m">>), NoErr)
              ELSE <<>>
    /\ wformat' = Reconfigured(Reconfigured(wformat, Default), format)
    /\ wnoColor' = Reconfigured(Reconfigured(wnoColor, TRUE), noColor)
    /\ call' = Call("Bypass", InfoLevel)
    /\ UNCHANGED <<pc, format, noColor, writers, buffer, hold, gLevel, suppressExit, exits>>
    /\ UNCHANGED <<bvars, ovars>>

----------------------------------------------------------------------------
\* The Buffer of a BufferedWriter

\* The bytes of the inputs of Buffer.Write: a letter and the line feed
LF == "\n"
Bytes == {"a", LF}

\* Bounds: the length of an input of Buffer.Write, and the lines a Buffer
\* holds at most when a Write to it begins
MaxLen == 4
MaxStore == 1

\* The byte strings of at most n bytes
RECURSIVE ByteStrings(_)
ByteStrings(n) ==
    IF n = 0 THEN {<<>>}
    ELSE LET S == ByteStrings(n - 1)
         IN  S \cup {Append(b, c) : b \in S, c \in Bytes}

\* strings.TrimSuffix(string(p), "\n")
TrimSuffix(b) ==
    IF b # <<>> /\ b[Len(b)] = LF THEN SubSeq(b, 1, Len(b) - 1) ELSE b

\* The length of the run of line feeds b starts with
RECURSIVE LeadingRun(_)
LeadingRun(b) ==
    IF b # <<>> /\ Head(b) = LF THEN 1 + LeadingRun(Tail(b)) ELSE 0

\* regexp.MustCompile("^\n{2,}").ReplaceAllString(input, "")
ReplaceAllString(b) ==
    IF LeadingRun(b) >= 2 THEN SubSeq(b, LeadingRun(b) + 1, Len(b)) ELSE b

\* strings.Split(input, "\n"): the pieces between the line feeds, as strings
RECURSIVE Split(_)
Split(b) ==
    IF \A i \in 1..Len(b) : b[i] # LF THEN <<Join(b)>>
    ELSE LET k == CHOOSE i \in 1..Len(b) :
                      b[i] = LF /\ \A j \in 1..(i - 1) : b[j] # LF
         IN  <<Join(SubSeq(b, 1, k - 1))>> \o Split(SubSeq(b, k + 1, Len(b)))

\* A test that asks the writer's own format field
KeepLineOwn(line) == wformat["w1"] = Default \/ line # ""

\* The test of Buffer.Write's loop: _logger.format == Default || line != ""
KeepLine(line) == format = Default \/ line # ""

\* The lines Buffer.Write(p) appends, in order
Lines(p) == SelectSeq(Split(ReplaceAllString(TrimSuffix(p))), KeepLine)

\* The elements of the slice s over the arrays h
Visible(h, s) == IF s.a = NilArr THEN <<>> ELSE SubSeq(h[s.a], 1, s.len)

\* cap(s)
Cap(h, s) == IF s.a = NilArr THEN 0 ELSE Len(h[s.a])

\* The capacities a growing append may pick: the length needed, or twice the
\* old capacity when that is more
Growth == {"exact", "double"}
NewCap(old, need, g) == IF g = "double" /\ 2 * old > need THEN 2 * old ELSE need

\* The array a growing append allocates: one that neither live slice uses
FreeArr(s1, s2) ==
    CHOOSE a \in ArrayIds :
        /\ a \notin {s1.a, s2.a}
        /\ \A b \in ArrayIds : b \notin {s1.a, s2.a} => a <= b

\* append(s, x) for the slice hs.s over the arrays hs.h, other being the other
\* live slice: in place while the capacity lasts, else into a new array
AppendTo(hs, other, x, g) ==
    IF hs.s.len < Cap(hs.h, hs.s)
    THEN [h |-> [hs.h EXCEPT ![hs.s.a][hs.s.len + 1] = x],
          s |-> [hs.s EXCEPT !.len = @ + 1]]
    ELSE LET a == FreeArr(hs.s, other)
             c == NewCap(Cap(hs.h, hs.s), hs.s.len + 1, g)
         IN  [h |-> [hs.h EXCEPT ![a] =
                        Visible(hs.h, hs.s) \o <<x>>
                        \o [i \in 1..(c - hs.s.len - 1) |-> ""]],
              s |-> [a |-> a, len |-> hs.s.len + 1]]

\* The loop of Buffer.Write: *b = append(*b, line) for every line
RECURSIVE AppendAll(_, _, _, _)
AppendAll(hs, other, lines, g) ==
    IF lines = <<>> THEN hs
    ELSE AppendAll(AppendTo(hs, other, Head(lines), g), other, Tail(lines), g)

\* The arrays a live slice points to; the others are garbage
Collect(h, s1, s2) ==
    [a \in ArrayIds |-> IF a \in {s1.a, s2.a} THEN h[a] ELSE <<>>]

\* The logger and the process, which the Buffer operations leave alone
lvars == <<format, noColor, writers, buffer, hold, gLevel, suppressExit, exits,
           wformat, wnoColor, pc>>

\* (b *Buffer) Write(p) on the Buffer of "w1"
BufferWrite(p, g) ==
    /\ Running
    /\ store.len <= MaxStore
    /\ LET r == AppendAll([h |-> heap, s |-> store], snap, Lines(p), g)
       IN  /\ heap' = Collect(r.h, r.s, snap)
           /\ store' = r.s
    /\ ret' = [n |-> Len(p), err |-> NoErr]
    /\ arg' = p
    /\ out' = <<>>
    /\ call' = Call("BufferWrite", NoLevel)
    /\ UNCHANGED <<snap, lvars, ovars>>

\* s := w.Buffer() for the BufferedWriter "w1": return *v
BufferSnapshot ==
    /\ Running
    /\ snap' = store
    /\ heap' = Collect(heap, store, store)
    /\ out' = <<>>
    /\ call' = Call("Buffer", NoLevel)
    /\ UNCHANGED <<store, ret, arg, lvars, ovars>>

\* s[i] = x by the caller that holds s from Buffer()
SnapSet(i, x) ==
    /\ Running
    /\ snap.a # NilArr
    /\ i \in 1..snap.len
    /\ heap' = [heap EXCEPT ![snap.a][i] = x]
    /\ out' = <<>>
    /\ call' = Call("SnapSet", NoLevel)
    /\ UNCHANGED <<store, snap, ret, arg, lvars, ovars>>

\* s = append(s, x) by the caller that holds s from Buffer()
SnapAppend(x, g) ==
    /\ Running
    /\ snap.a # NilArr
    /\ snap.len <= MaxStore + 1
    /\ LET r == AppendTo([h |-> heap, s |-> snap], store, x, g)
       IN  /\ heap' = Collect(r.h, store, r.s)
           /\ snap' = r.s
    /\ out' = <<>>
    /\ call' = Call("SnapAppend", NoLevel)
    /\ UNCHANGED <<store, ret, arg, lvars, ovars>>

----------------------------------------------------------------------------
\* Strings the code inspects letter by letter: sequences of characters

LowerCase ==
    <<"a", "b", "c", "d", "e", "f", "g", "h", "i", "j", "k", "l", "m", "n", "o", "p", "q", "r", "s", "t", "u", "v", "w", "x", "y", "z">>
UpperCase ==
    <<"A", "B", "C", "D", "E", "F", "G", "H", "I", "J", "K", "L", "M", "N", "O", "P", "Q", "R", "S", "T", "U", "V", "W", "X", "Y", "Z">>

\* The position of the character c in the alphabet s, 0 when it has none
Index(s, c) ==
    IF \E i \in 1..Len(s) : s[i] = c THEN CHOOSE i \in 1..Len(s) : s[i] = c ELSE 0

\* strings.ToLower
ToLower(s) ==
    [i \in 1..Len(s) |->
        IF Index(UpperCase, s[i]) # 0 THEN LowerCase[Index(UpperCase, s[i])]
        ELSE s[i]]

\* strings.ToUpper
ToUpper(s) ==
    [i \in 1..Len(s) |->
        IF Index(LowerCase, s[i]) # 0 THEN UpperCase[Index(LowerCase, s[i])]
        ELSE s[i]]

\* (f Format) String()
FormatString(f) ==
    IF f < Default \/ f > JSON THEN <<>>
    ELSE <<<<"d", "e", "f", "a", "u", "l", "t">>,
           <<"p", "r", "e", "t", "t", "y">>,
           <<"j", "s", "o", "n">>>>[f + 1]

\* A ParseFormat that compares its argument as it was typed
ParseFormatExact(formatStr) ==
    CASE formatStr = <<"d", "e", "f", "a", "u", "l", "t">> ->
             [value |-> Default, err |-> NoErr]
      [] formatStr = <<"p", "r", "e", "t", "t", "y">> ->
             [value |-> Pretty, err |-> NoErr]
      [] formatStr = <<"j", "s", "o", "n">> ->
             [value |-> JSON, err |-> NoErr]
      [] OTHER ->
             [value |-> Default,
              err |-> "unknown log format: '" \o Join(formatStr) \o "'"]

\* ParseFormat(formatStr)
ParseFormat(formatStr) ==
    CASE ToLower(formatStr) = <<"d", "e", "f", "a", "u", "l", "t">> ->
             [value |-> Default, err |-> NoErr]
      [] ToLower(formatStr) = <<"p", "r", "e", "t", "t", "y">> ->
             [value |-> Pretty, err |-> NoErr]
      [] ToLower(formatStr) = <<"j", "s", "o", "n">> ->
             [value |-> JSON, err |-> NoErr]
      [] OTHER ->
             [value |-> Default,
              err |-> "unknown log format: '" \o Join(formatStr) \o "'"]

\* format, err := ParseFormat(formatStr) by a caller
ParseFormatCall(formatStr) ==
    /\ Running
    /\ res' = [arg |-> formatStr] @@ ParseFormat(formatStr)
    /\ out' = <<>>
    /\ call' = Call("ParseFormat", NoLevel)
    /\ UNCHANGED <<bvars, lvars, th>>

----------------------------------------------------------------------------
\* The text of a record: what the handler's event holds and what a writer of
\* each format makes of it

\* The times of the events: the seconds, the nanoseconds and the zone
Times ==
    {[sec |-> "2021-03-04T05:06:07", nsec |-> 0, zone |-> "Z"],
     [sec |-> "2021-03-04T05:06:07", nsec |-> 8, zone |-> "+01:00"]}

\* The time field the handler's Timestamp() adds: the time in RFC 3339, that
\* is the seconds and the zone
FormatTime(t) == <<t.sec, t.zone>>

\* time.Parse("2006-01-02T15:04:05Z07:00", value)
ParseTime(value) ==
    IF Len(value) = 2
    THEN [t |-> [sec |-> value[1], nsec |-> 0, zone |-> value[2]], err |-> NoErr]
    ELSE [t |-> [sec |-> "", nsec |-> 0, zone |-> ""], err |-> "parsing time"]

\* A String() that spells WarnLevel in full
LevelStringLong(l) ==
    CASE l = TraceLevel -> <<"t", "r", "a", "c", "e">>
      [] l = DebugLevel -> <<"d", "e", "b", "u", "g">>
      [] l = InfoLevel -> <<"i", "n", "f", "o">>
      [] l = WarnLevel -> <<"w", "a", "r", "n", "i", "n", "g">>
      [] l = ErrorLevel -> <<"e", "r", "r", "o", "r">>
      [] l = FatalLevel -> <<"f", "a", "t", "a", "l">>
      [] l = PanicLevel -> <<"p", "a", "n", "i", "c">>
      [] l = Disabled -> <<"d", "i", "s", "a", "b", "l", "e", "d">>
      [] OTHER -> <<>>

\* (l Level) String(): the name zerolog gives the level, none for NoLevel
LevelString(l) ==
    CASE l = TraceLevel -> <<"t", "r", "a", "c", "e">>
      [] l = DebugLevel -> <<"d", "e", "b", "u", "g">>
      [] l = InfoLevel -> <<"i", "n", "f", "o">>
      [] l = WarnLevel -> <<"w", "a", "r", "n">>
      [] l = ErrorLevel -> <<"e", "r", "r", "o", "r">>
      [] l = FatalLevel -> <<"f", "a", "t", "a", "l">>
      [] l = PanicLevel -> <<"p", "a", "n", "i", "c">>
      [] l = Disabled -> <<"d", "i", "s", "a", "b", "l", "e", "d">>
      [] OTHER -> <<>>

\* zerolog.ParseLevel(levelStr)
zerologParseLevel(levelStr) ==
    CASE levelStr = <<"t", "r", "a", "c", "e">> -> [level |-> TraceLevel, err |-> NoErr]
      [] levelStr = <<"d", "e", "b", "u", "g">> -> [level |-> DebugLevel, err |-> NoErr]
      [] levelStr = <<"i", "n", "f", "o">> -> [level |-> InfoLevel, err |-> NoErr]
      [] levelStr = <<"w", "a", "r", "n">> -> [level |-> WarnLevel, err |-> NoErr]
      [] levelStr = <<"e", "r", "r", "o", "r">> -> [level |-> ErrorLevel, err |-> NoErr]
      [] levelStr = <<"f", "a", "t", "a", "l">> -> [level |-> FatalLevel, err |-> NoErr]
      [] levelStr = <<"p", "a", "n", "i", "c">> -> [level |-> PanicLevel, err |-> NoErr]
      [] levelStr = <<"d", "i", "s", "a", "b", "l", "e", "d">> -> [level |-> Disabled, err |-> NoErr]
      [] levelStr = <<>> -> [level |-> NoLevel, err |-> NoErr]
      [] OTHER -> [level |-> NoLevel, err |-> "Unknown Level String"]

\* The JSON object of an event, as the list of its fields: the level unless it
\* is NoLevel, the error when one is attached, the time, and the message
\* unless it is empty
Event(level, m, err, t) ==
    (IF level # NoLevel THEN <<[k |-> "level", v |-> LevelString(level)]>>
     ELSE <<>>)
    \o (IF err # NoErr THEN <<[k |-> "error", v |-> <<err>>]>> ELSE <<>>)
    \o <<[k |-> "time", v |-> FormatTime(t)]>>
    \o (IF m # "" THEN <<[k |-> "message", v |-> <<m>>]>> ELSE <<>>)

\* The value of the field k of an object, and whether the object has it
Field(obj, k) ==
    IF \E i \in 1..Len(obj) : obj[i].k = k
    THEN [set |-> TRUE, v |-> obj[CHOOSE i \in 1..Len(obj) : obj[i].k = k].v]
    ELSE [set |-> FALSE, v |-> <<>>]

\* UnmarshalLog(bytes) for the bytes of the object obj: the fields go to the
\* placeholder, absent ones as "", then the time and the level are parsed
UnmarshalLog(obj) ==
    LET raw == [Level |-> Field(obj, "level").v, Time |-> Field(obj, "time").v,
                Message |-> Field(obj, "message").v,
                Error |-> Field(obj, "error").v]
        timestamp == ParseTime(raw.Time)
        level == zerologParseLevel(raw.Level)
        none == [Level |-> NoLevel, Time |-> timestamp.t, Message |-> "",
                 Error |-> ""]
    IN  IF timestamp.err # NoErr
        THEN [log |-> none, err |-> "Cannot parse datetime format"]
        ELSE IF level.err # NoErr
        THEN [log |-> none, err |-> "Cannot parse level"]
        ELSE [log |-> [Level |-> level.level, Time |-> timestamp.t,
                       Message |-> Join(raw.Message), Error |-> Join(raw.Error)],
              err |-> NoErr]

\* fmt.Sprintf("%s", i) for a field value: Go prints a missing one as a bad verb
Sprint(i) ==
    IF i.set THEN i.v ELSE <<"%", "!", "s", "(", "<", "n", "i", "l", ">", ")">>

\* fmt.Sprintf("%-6s", s): s, then spaces up to the width n
PadRight(s, n) == s \o [i \in 1..(n - Len(s)) |-> " "]

\* zerolog's colorize: the text between two escape sequences unless colour
\* is off
Styled(s, nc) == IF nc THEN s ELSE <<"ESC[Nm">> \o s \o <<"ESC[0m">>

\* A FormatLevel that prints the info level like the others
FormatLevelAll(f, i) ==
    IF f = Default THEN ToUpper(PadRight(Sprint(i), 6))
    ELSE ToUpper(<<"|", " ">> \o PadRight(Sprint(i), 6) \o <<" ", "|">>)

\* writer.FormatLevel of the Default and of the Pretty writer
FormatLevel(f, i) ==
    IF f = Default
    THEN IF i.set /\ i.v = <<"i", "n", "f", "o">> THEN <<>>
         ELSE ToUpper(PadRight(Sprint(i), 6))
    ELSE ToUpper(<<"|", " ">> \o PadRight(Sprint(i), 6) \o <<" ", "|">>)

\* writer.FormatTimestamp: "" for the Default writer, zerolog's own for the
\* Pretty writer
FormatTimestamp(f, nc, i) ==
    IF f = Default \/ ~i.set THEN <<>> ELSE Styled(i.v, nc)

\* The parts of a console line, the empty ones left out, a space between two
RECURSIVE Spaced(_)
Spaced(parts) ==
    IF parts = <<>> THEN <<>>
    ELSE IF Head(parts) = <<>> THEN Spaced(Tail(parts))
    ELSE IF Spaced(Tail(parts)) = <<>> THEN Head(parts)
    ELSE Head(parts) \o <<" ">> \o Spaced(Tail(parts))

\* What zerolog.ConsoleWriter writes for an event: the time, the level and
\* the message, then the error field as name=value
ConsoleLine(f, nc, obj) ==
    Spaced(<<FormatTimestamp(f, nc, Field(obj, "time")),
             FormatLevel(f, Field(obj, "level")),
             Field(obj, "message").v,
             IF Field(obj, "error").set
             THEN Styled(<<"e", "r", "r", "o", "r", "=">>, nc)
                  \o Styled(Field(obj, "error").v, nc)
             ELSE <<>>>>)

\* The JSON text of an object
RECURSIVE Members(_)
Members(obj) ==
    IF obj = <<>> THEN <<>>
    ELSE <<"\"", Head(obj).k, "\":\"">> \o Head(obj).v \o <<"\"">>
         \o (IF Tail(obj) = <<>> THEN <<>> ELSE <<",">>) \o Members(Tail(obj))

Marshal(obj) == <<"{">> \o Members(obj) \o <<"}">>

\* The bytes the writer of a write gets from newWriter's io.Writer: the line
\* in the writer's format and a line feed
Rendered(e, t) ==
    (IF e.format = JSON THEN Marshal(Event(e.Level, e.Message, e.err, t))
     ELSE ConsoleLine(e.format, e.noColor, Event(e.Level, e.Message, e.err, t)))
    \o <<LF>>

\* m, err := UnmarshalLog(line) by a caller, for the line a JSON writer got as
\* the j-th write of the last call, the event being of time t
UnmarshalLogCall(j, t) ==
    /\ Running
    /\ j \in 1..Len(out)
    /\ out[j].format = JSON
    /\ res' = [arg |-> Event(out[j].Level, out[j].Message, out[j].err, t),
               of |-> out[j]]
              @@ UnmarshalLog(Event(out[j].Level, out[j].Message, out[j].err, t))
    /\ call' = Call("UnmarshalLog", NoLevel)
    /\ UNCHANGED <<out, bvars, lvars, th>>

\* The Buffer after the writes o: the BufferedWriter "w1" passes the bytes of
\* each of its writes to Buffer.Write, the other writers have destinations of
\* their own
RECURSIVE Captured(_, _, _, _)
Captured(hs, o, g, t) ==
    IF o = <<>> THEN hs
    ELSE Captured(IF Head(o).w = "w1"
                  THEN AppendAll(hs, snap, Lines(Rendered(Head(o), t)), g)
                  ELSE hs,
                  Tail(o), g, t)

\* The writes of o that went to "w1"
ToBuffer(o) == SelectSeq(o, LAMBDA e : e.w = "w1")

\* log(level, msg, err, v...) with the Buffer of "w1" followed: the event is
\* of time t
logCaptured(op, level, msg, err, v, g, t) ==
    /\ logBody(op, level, msg, err, v)
    /\ store.len <= MaxStore
    /\ LET r == Captured([h |-> heap, s |-> store], out', g, t)
       IN  /\ heap' = Collect(r.h, r.s, snap)
           /\ store' = r.s
    /\ IF ToBuffer(out') = <<>> THEN UNCHANGED <<ret, arg>>
       ELSE LET p == Rendered(ToBuffer(out')[Len(ToBuffer(out'))], t)
            IN  ret' = [n |-> Len(p), err |-> NoErr] /\ arg' = p
    /\ UNCHANGED <<snap, ovars>>

\* Debug, Info, Warn, Error and their E variants, the Buffer of "w1" followed
LeveledCaptured(level, e, g, t) ==
    logCaptured("log", level, <<"m">>, e, <<>>, g, t)

\* A Reset that keeps the slice it has
FreshKept(s1, s2) == s1

\* buffer := make(Buffer, 0): a slice of no elements over an array of its own
Fresh(s1, s2) == [a |-> FreeArr(s1, s2), len |-> 0]

\* (b *BufferedWriter) Reset() for "w1": a new ConsoleWriter of the same
\* format and colour over a new Buffer takes the place of b.writer
Reset ==
    /\ Running
    /\ store' = Fresh(store, snap)
    /\ heap' = Collect(heap, store', snap)
    /\ out' = <<>>
    /\ call' = Call("Reset", NoLevel)
    /\ UNCHANGED <<snap, ret, arg, lvars, ovars>>

\* _logger.level: the field no function assigns, so the zero value of Level
LoggerLevel == DebugLevel

\* The test of Logger.Write's loop:
\* line != "" || Format(zerolog.GlobalLevel()) == Format(Default)
KeepWritten(line) == line # "" \/ gLevel = Default

\* The writes of Logger.Write's loop over the lines
RECURSIVE WriteLines(_)
WriteLines(lines) ==
    IF lines = <<>> THEN <<>>
    ELSE (IF KeepWritten(Head(lines)) THEN Emit(LoggerLevel, Head(lines), NoErr)
          ELSE <<>>)
         \o WriteLines(Tail(lines))

\* (l *Logger) Write(p) on the global logger
LoggerWrite(p) ==
    /\ Running
    /\ out' = WriteLines(Split(p))
    /\ ret' = [n |-> Len(p), err |-> NoErr]
    /\ arg' = p
    /\ call' = Call("LoggerWrite", LoggerLevel)
    /\ UNCHANGED <<heap, store, snap, lvars, ovars>>

----------------------------------------------------------------------------
\* A leveled call and a Flush() in two goroutines, with no lock between them:
\* each step is one read or one write of _logger.hold or _logger.buffer, or
\* the writes of events to the handler in between

\* What the two goroutines have not touched
cvars == <<pc, format, noColor, writers, gLevel, suppressExit, exits, wformat,
           wnoColor, bvars, res>>

\* The writes made since the two goroutines began
Written == IF th = Idle THEN <<>> ELSE out

\* Flush(): _logger.hold = false
FlushHold ==
    /\ Running /\ th.f = "idle"
    /\ hold' = FALSE
    /\ th' = [th EXCEPT !.f = "check"]
    /\ out' = Written
    /\ call' = Call("Flush", NoLevel)
    /\ UNCHANGED <<buffer, cvars>>

\* Flush(): the test len(_logger.buffer) > 0 and the Debugf
FlushCheck ==
    /\ Running /\ th.f = "check"
    /\ out' = out \o FlushNote(buffer)
    /\ th' = [th EXCEPT !.f = IF Len(buffer) > 0 THEN "range" ELSE "reset"]
    /\ call' = Call("Flush", NoLevel)
    /\ UNCHANGED <<buffer, hold, cvars>>

\* Flush(): the loop over the queue as it is when the loop begins
FlushRange ==
    /\ Running /\ th.f = "range"
    /\ out' = out \o Replay(buffer)
    /\ th' = [th EXCEPT !.f = "reset"]
    /\ call' = Call("Flush", NoLevel)
    /\ UNCHANGED <<buffer, hold, cvars>>

\* A Flush() that leaves the queue as it is
ResetBufferKept(q) == q

\* make([]Message, 0)
ResetBuffer(q) == <<>>

\* Flush(): _logger.buffer = make([]Message, 0)
FlushReset ==
    /\ Running /\ th.f = "reset"
    /\ buffer' = ResetBuffer(buffer)
    /\ th' = [th EXCEPT !.f = "done"]
    /\ out' = out
    /\ call' = Call("Flush", NoLevel)
    /\ UNCHANGED <<hold, cvars>>

\* log(): the test of _logger.hold
logHold(level) ==
    /\ Running /\ th.l = "idle"
    /\ th' = [th EXCEPT !.l = IF hold THEN "load" ELSE "emit",
                        !.saw = hold, !.level = level]
    /\ out' = Written
    /\ call' = Call("log", level)
    /\ UNCHANGED <<buffer, hold, cvars>>

\* log(): the read of _logger.buffer for the append
logLoad ==
    /\ Running /\ th.l = "load"
    /\ th' = [th EXCEPT !.l = "store", !.q = buffer]
    /\ out' = out
    /\ call' = Call("log", th.level)
    /\ UNCHANGED <<buffer, hold, cvars>>

\* log(): _logger.buffer = append(..., log), written back
logStore ==
    /\ Running /\ th.l = "store"
    /\ buffer' = Queue(th.q, th.level, "c", NoErr)
    /\ th' = [th EXCEPT !.l = "done", !.q = <<>>, !.at = th.f]
    /\ out' = out
    /\ call' = Call("log", th.level)
    /\ UNCHANGED <<hold, cvars>>

\* log(): the event goes to the handler
logEmit ==
    /\ Running /\ th.l = "emit"
    /\ out' = out \o Emit(th.level, "c", NoErr)
    /\ th' = [th EXCEPT !.l = "done"]
    /\ call' = Call("log", th.level)
    /\ UNCHANGED <<buffer, hold, cvars>>

----------------------------------------------------------------------------
\* The formatting inputs of this specification
SpecFormats == {JSON}
SpecColors == {TRUE}

\* The caller-made writers of this specification
SpecWriters == {"w1"}

\* The levels at which this specification calls the E variants
ErrLevels == {ErrorLevel, FatalLevel}

\* The levels of Debug, Info, Warn and Error
NamedLevels == {DebugLevel, InfoLevel, WarnLevel, ErrorLevel}

\* Sequences of caller-made writers of at most n elements
RECURSIVE WriterLists(_)
WriterLists(n) ==
    IF n = 0 THEN {<<>>}
    ELSE LET S == WriterLists(n - 1)
         IN  S \cup {Append(s, w) : s \in S, w \in SpecWriters}

Next ==
    \/ \E l \in NamedLevels : Leveled(l)
    \/ \E l \in NamedLevels : Leveledf(l)
    \/ \E l \in NamedLevels \cap ErrLevels, e \in Errs \ {NoErr} : LeveledE(l, e)
    \/ \E l \in Levels : Msg(l)
    \/ \E l \in Levels : Msgf(l)
    \/ \E l \in ErrLevels, e \in Errs \ {NoErr} : MsgE(l, e)
    \/ Fatal
    \/ Fatalf
    \/ \E e \in Errs \ {NoErr} : FatalE(e)
    \/ FatalExit
    \/ Hold
    \/ Flush
    \/ \E l \in Levels : SetGlobalLevel(l)
    \/ \E b \in BOOLEAN : SetSuppressExit(b)
    \/ \E f \in SpecFormats, nc \in SpecColors, ws \in WriterLists(MaxWriters) :
            InitLoggerWithWriter("InitLoggerWithWriter", f, nc, ws)
    \/ \E f \in SpecFormats : InitLogger(f)
    \/ \E w \in SpecWriters : AppendWriter(w)
    \/ \E w \in SpecWriters : RemoveWriter(w)
    \/ \E old \in SpecWriters, new \in SpecWriters : UpdateWriter(old, new)
    \/ \E f \in SpecFormats, nc \in SpecColors : SetFormatting(f, nc)
    \/ Bypass

Spec == Init /\ [][Next]_vars

\* The hold/flush protocol on its own: a program that logs, holds, flushes,
\* sets the global level and registers a second writer.
NextQ ==
    \/ \E l \in NamedLevels : Leveled(l)
    \/ \E l \in NamedLevels : Leveledf(l)
    \/ \E l \in NamedLevels \cap ErrLevels, e \in Errs \ {NoErr} : LeveledE(l, e)
    \/ \E l \in Levels : Msg(l)
    \/ \E l \in Levels : Msgf(l)
    \/ \E l \in ErrLevels, e \in Errs \ {NoErr} : MsgE(l, e)
    \/ Hold
    \/ Flush
    \/ \E l \in Levels : SetGlobalLevel(l)
    \/ \E w \in SpecWriters : AppendWriter(w)

SpecQ == Init /\ [][NextQ]_vars

\* The queue length the level-filter specification stops at
MaxHeld == 1

\* A held call finds room in the queue
Room == hold => Len(buffer) < MaxHeld

\* The level filter and the Fatal functions: the same program with the Fatal
\* functions and the exit switch, holding at most MaxHeld Messages.
NextL ==
    \/ \E l \in NamedLevels : Room /\ Leveled(l)
    \/ \E l \in NamedLevels : Room /\ Leveledf(l)
    \/ \E l \in NamedLevels \cap ErrLevels, e \in Errs \ {NoErr} : Room /\ LeveledE(l, e)
    \/ \E l \in Levels : Room /\ Msg(l)
    \/ \E l \in Levels : Room /\ Msgf(l)
    \/ \E l \in ErrLevels, e \in Errs \ {NoErr} : Room /\ MsgE(l, e)
    \/ Fatal
    \/ Fatalf
    \/ \E e \in Errs \ {NoErr} : FatalE(e)
    \/ FatalExit
    \/ Hold
    \/ Flush
    \/ \E l \in Levels : SetGlobalLevel(l)
    \/ \E b \in BOOLEAN : SetSuppressExit(b)
    \/ \E w \in SpecWriters : AppendWriter(w)

SpecL == Init /\ [][NextL]_vars

\* The formats, colour flags and levels of the writer-registry specification
RegFormats == {Default, JSON}
RegColors == BOOLEAN
RegLevels == {InfoLevel, ErrorLevel}

\* Sequences over UserWriters of at most n elements
RECURSIVE UserWriterLists(_)
UserWriterLists(n) ==
    IF n = 0 THEN {<<>>}
    ELSE LET S == UserWriterLists(n - 1)
         IN  S \cup {Append(s, w) : s \in S, w \in UserWriters}

\* The writer registry: a program that holds and logs, and reinitialises the
\* logger and appends, removes and replaces two writers of its own.
NextW ==
    \/ \E l \in RegLevels : Leveled(l)
    \/ Hold
    \/ \E f \in RegFormats, nc \in RegColors, ws \in UserWriterLists(MaxWriters) :
            InitLoggerWithWriter("InitLoggerWithWriter", f, nc, ws)
    \/ \E f \in RegFormats : InitLogger(f)
    \/ \E w \in UserWriters : AppendWriter(w)
    \/ \E w \in UserWriters : RemoveWriter(w)
    \/ \E old \in UserWriters, new \in UserWriters : UpdateWriter(old, new)

SpecW == Init /\ [][NextW]_vars

\* The global levels of the Bypass specification
BypassLevels == {InfoLevel, WarnLevel, ErrorLevel, Disabled}

\* Bypass: a program that holds, logs and bypasses, sets the global level and
\* the formatting, registers its writers and reconfigures them directly.
NextB ==
    \/ \E l \in RegLevels : Leveled(l)
    \/ Hold
    \/ Bypass
    \/ \E l \in BypassLevels : SetGlobalLevel(l)
    \/ \E f \in RegFormats, nc \in RegColors : SetFormatting(f, nc)
    \/ \E w \in UserWriters : AppendWriter(w)
    \/ \E w \in UserWriters, f \in RegFormats, nc \in RegColors :
            WriterSetFormatting(w, f, nc)

SpecB == Init /\ [][NextB]_vars

\* Buffer.Write: a program that writes byte strings to the Buffer of its
\* BufferedWriter and changes the format of the logger and of the writer.
NextBW ==
    \/ \E p \in ByteStrings(MaxLen), g \in Growth : BufferWrite(p, g)
    \/ \E f \in RegFormats : SetFormatting(f, FALSE)
    \/ \E f \in RegFormats : WriterSetFormatting("w1", f, FALSE)

SpecBW == Init /\ [][NextBW]_vars

\* The inputs of Buffer.Write and the values a caller stores in the
\* specification of Buffer()
SnapInputs == {<<"a">>, <<"a", LF, "a">>}
SnapValues == {"x"}

\* Buffer(): a program that writes to the Buffer of its BufferedWriter, takes
\* the slice Buffer() returns, and assigns and appends to that slice.
NextBS ==
    \/ \E p \in SnapInputs, g \in Growth : BufferWrite(p, g)
    \/ BufferSnapshot
    \/ \E i \in 1..(MaxStore + 1), x \in SnapValues : SnapSet(i, x)
    \/ \E x \in SnapValues, g \in Growth : SnapAppend(x, g)

SpecBS == Init /\ [][NextBS]_vars

\* The specification of the text of the records: every level, with and
\* without an error, in every format, with colour on and off
TextLevels == {TraceLevel, DebugLevel}

NextJ ==
    \/ \E l \in Levels : Msg(l)
    \/ \E l \in Levels, e \in Errs \ {NoErr} : MsgE(l, e)
    \/ Fatal
    \/ \E e \in Errs \ {NoErr} : FatalE(e)
    \/ FatalExit
    \/ \E b \in BOOLEAN : SetSuppressExit(b)
    \/ \E l \in TextLevels : SetGlobalLevel(l)
    \/ \E f \in Formats, nc \in BOOLEAN : SetFormatting(f, nc)
    \/ \E j \in 1..MaxWriters, t \in Times : UnmarshalLogCall(j, t)

SpecJ == Init /\ [][NextJ]_vars

\* The specification of Reset(): records go to the BufferedWriter "w1" while it
\* is registered, a caller takes its Buffer() and resets it
ResetLevels == {InfoLevel}
ResetTimes == {t \in Times : t.nsec = 0}

NextR ==
    \/ \E l \in ResetLevels, g \in Growth, t \in ResetTimes :
           LeveledCaptured(l, NoErr, g, t)
    \/ Reset
    \/ BufferSnapshot
    \/ \E w \in SpecWriters : AppendWriter(w)
    \/ \E w \in SpecWriters : RemoveWriter(w)
    \/ \E f \in RegFormats, nc \in SpecColors : SetFormatting(f, nc)

SpecR == Init /\ [][NextR]_vars

\* The specification of Logger.Write: every byte string up to the bound, in
\* every format, at minimum levels on both sides of the level of its records
WriteLevels == {TraceLevel, DebugLevel, InfoLevel}

NextLW ==
    \/ \E p \in ByteStrings(MaxLen) : LoggerWrite(p)
    \/ \E f \in Formats, nc \in SpecColors : SetFormatting(f, nc)
    \/ \E l \in WriteLevels : SetGlobalLevel(l)

SpecLW == Init /\ [][NextLW]_vars

\* The specification of the race: calls one after the other hold the logger
\* and fill the queue, then a leveled call and a Flush() run at once
NextC ==
    \/ th = Idle /\ Hold
    \/ \E l \in RegLevels : th = Idle /\ Leveled(l)
    \/ FlushHold
    \/ FlushCheck
    \/ FlushRange
    \/ FlushReset
    \/ \E l \in RegLevels : logHold(l)
    \/ logLoad
    \/ logStore
    \/ logEmit

SpecC == Init /\ [][NextC]_vars

\* The specification of the time a queued record is judged: between the call
\* and the Flush() the minimum level, the format and the writers change
FlushLevels == {DebugLevel, ErrorLevel, Disabled}

NextT ==
    \/ \E l \in RegLevels : Leveled(l)
    \/ Hold
    \/ Flush
    \/ \E l \in FlushLevels : SetGlobalLevel(l)
    \/ \E f \in RegFormats, nc \in SpecColors : SetFormatting(f, nc)
    \/ \E w \in SpecWriters : AppendWriter(w)

SpecT == Init /\ [][NextT]_vars

\* The specification of the formats of the writers: the operations that set
\* or keep them, with writers constructed in a format of their own
NextF ==
    \/ \E f \in RegFormats : InitLogger(f)
    \/ \E f \in RegFormats, nc \in RegColors, ws \in UserWriterLists(MaxWriters) :
            InitLoggerWithWriter("InitLoggerWithWriter", f, nc, ws)
    \/ \E f \in Formats, nc \in RegColors : SetFormatting(f, nc)
    \/ \E w \in UserWriters : AppendWriter(w)
    \/ \E w \in UserWriters : RemoveWriter(w)
    \/ \E old \in UserWriters, new \in UserWriters : UpdateWriter(old, new)
    \/ Bypass
    \/ Reset

SpecF == Init /\ [][NextF]_vars

\* The specification of SetFormatting: the format and the colour flag change
\* while the logger holds records, has two writers, one of them with a format
\* of its own, and a minimum level other than the initial one
NextSF ==
    \/ \E f \in Formats, nc \in BOOLEAN : SetFormatting(f, nc)
    \/ \E l \in RegLevels : Leveled(l)
    \/ Hold
    \/ \E l \in RegLevels : SetGlobalLevel(l)
    \/ \E w \in SpecWriters : AppendWriter(w)
    \/ \E w \in SpecWriters, f \in RegFormats, nc \in SpecColors :
           WriterSetFormatting(w, f, nc)

SpecSF == Init /\ [][NextSF]_vars

\* The arguments of ParseFormat: the three names in every mix of upper and
\* lower case, strings that miss a name by a character, and the words of at
\* most MaxWord characters over a small alphabet
MaxWord == 4
WordChars == {"j", "S", " "}
NearMisses ==
    {<<" ", "j", "s", "o", "n">>, <<"j", "s", "o", "n", " ">>,
     <<"j", "s", "o", "n", "x">>, <<"j", "s", "o">>, <<"J", "S", "N">>,
     <<"d", "e", "f", "a", "u", "l", "t", "s">>, <<"0">>, <<"2">>,
     <<"p", "r", "e", "t", "t", "y", "\n">>, <<"P", "r", "e", "t", "y">>}

RECURSIVE Cases(_)
Cases(s) ==
    IF s = <<>> THEN {<<>>}
    ELSE {<<c>> \o t : c \in {Head(s), ToUpper(<<Head(s)>>)[1]}, t \in Cases(Tail(s))}

RECURSIVE Words(_)
Words(n) ==
    IF n = 0 THEN {<<>>}
    ELSE LET S == Words(n - 1)
         IN  S \cup {Append(b, c) : b \in S, c \in WordChars}

ParseInputs ==
    UNION {Cases(FormatString(f)) : f \in Formats} \cup NearMisses
    \cup Words(MaxWord)

\* The specification of ParseFormat
NextP == \E formatStr \in ParseInputs : ParseFormatCall(formatStr)

SpecP == Init /\ [][NextP]_vars


----------------------------------------------------------------------------
\* What the writes o say about the sinks ws (the positions of the writer list)

\* The Message a write carries
Rec(e) == [Level |-> e.Level, Message |-> e.Message, err |-> e.err]

\* o is a run of fan-outs over ws: write after write goes to the sinks in
\* list order, and the writes of one round carry one Message
FannedOut(o, ws) ==
    /\ Len(o) % Len(ws) = 0
    /\ \A j \in 1..Len(o) :
          /\ o[j].w = ws[((j - 1) % Len(ws)) + 1]
          /\ Rec(o[j]) = Rec(o[j - ((j - 1) % Len(ws))])

\* The Messages sink i received, in the order it received them
Received(o, ws, i) ==
    [k \in 1..(Len(o) \div Len(ws)) |-> Rec(o[(k - 1) * Len(ws) + i])]

\* The text of the Debug record Flush logs for a queue of n Messages
FlushText(n) == "Flushing buffer with " \o ToString(n) \o " log(s)"

\* Flush logs its Debug record: the queue is not empty and Debug passes
Noted(q) == Len(q) > 0 /\ gLevel <= DebugLevel

\* A queued Message passes the level filter of the handler
Passes(r) == r.Level # Disabled /\ r.Level >= gLevel

----------------------------------------------------------------------------
\* C1: while the hold flag is set, a call of Debug/Info/Warn/Error, of their f
\* and E variants, or of Msg/Msgf/MsgE at a level below Fatal appends exactly
\* one Message (of the call's level) at the end of the queue, leaves the rest
\* of the queue and the hold flag alone, and writes nothing to any sink,
\* whatever the global level is.
C1_HoldingQueues ==
    [][(call'.op = "log" /\ hold /\ call'.level < FatalLevel)
        => /\ Len(buffer') = Len(buffer) + 1
           /\ SubSeq(buffer', 1, Len(buffer)) = buffer
           /\ buffer'[Len(buffer')].Level = call'.level
           /\ out' = <<>>
           /\ hold']_vars

\* A second Message was queued while holding, at a level below the global
\* level, and no sink was written
C1_Witness ==
    /\ call.op = "log" /\ call.held /\ hold
    /\ call.level = InfoLevel /\ gLevel = ErrorLevel
    /\ call.n = 1 /\ Len(buffer) = 2 /\ buffer[2].Level = InfoLevel
    /\ out = <<>>

\* C2 as claimed: a Flush of N Messages queued at levels from the global level
\* up to Error gives every sink exactly N records, for every global level.
C2_FlushExactlyN ==
    [][(call'.op = "Flush" /\ hold
          /\ \A i \in 1..Len(buffer) :
                buffer[i].Level >= gLevel /\ buffer[i].Level <= ErrorLevel)
        => /\ FannedOut(out', writers)
           /\ \A i \in 1..Len(writers) :
                 Len(Received(out', writers, i)) = Len(buffer)]_vars

\* C2 amended: a Flush of N Messages queued at levels from the global level up
\* to NoLevel gives every sink exactly N records when N = 0 or the global
\* level is above Debug, and N + 1 when N > 0 and the global level is Debug or
\* Trace: the Debug record "Flushing buffer with N log(s)" comes first.
C2_FlushNPlusNote ==
    [][(call'.op = "Flush" /\ hold
          /\ \A i \in 1..Len(buffer) :
                buffer[i].Level >= gLevel /\ buffer[i].Level # Disabled)
        => /\ FannedOut(out', writers)
           /\ \A i \in 1..Len(writers) :
                 LET got == Received(out', writers, i)
                 IN  IF Noted(buffer)
                     THEN /\ Len(got) = Len(buffer) + 1
                          /\ got[1] = Message(DebugLevel, FlushText(Len(buffer)), NoErr)
                     ELSE Len(got) = Len(buffer)]_vars

\* Two queued Messages were flushed at global level Debug: three records a sink
C2_Witness ==
    /\ call.op = "Flush" /\ call.held /\ call.n = 2
    /\ gLevel = DebugLevel
    /\ Len(out) = 3 * Len(writers)
    /\ out[1].Message = FlushText(2)

\* C3: Flush replays the queue in enqueue order: apart from Flush's own Debug
\* record, every sink receives the queued Messages that pass the level filter,
\* as they were queued and in queue order, and the queue is empty afterwards.
C3_FlushInOrder ==
    [][call'.op = "Flush"
        => /\ buffer' = <<>>
           /\ FannedOut(out', writers)
           /\ \A i \in 1..Len(writers) :
                 LET got == Received(out', writers, i)
                 IN  (IF Noted(buffer) THEN Tail(got) ELSE got)
                        = SelectSeq(buffer, Passes)]_vars

\* Two different Messages were flushed to two sinks, first queued first
C3_Witness ==
    /\ call.op = "Flush" /\ call.n = 2 /\ buffer = <<>>
    /\ Len(writers) = 2 /\ Len(out) = 4
    /\ out[1].Level = ErrorLevel /\ out[2].Level = ErrorLevel
    /\ out[3].Level = WarnLevel /\ out[4].Level = WarnLevel

\* C4: a Flush that finds the queue empty clears the hold flag and writes
\* nothing; a Flush right after a Flush is such a Flush, so nothing is replayed
\* twice.
C4_EmptyFlush ==
    [][(call'.op = "Flush" /\ (buffer = <<>> \/ call.op = "Flush"))
        => (~hold' /\ out' = <<>> /\ buffer' = <<>>)]_vars

\* Flush was called while holding with an empty queue, at global level Trace
C4_Witness ==
    /\ call.op = "Flush" /\ call.held /\ call.n = 0
    /\ gLevel = TraceLevel
    /\ ~hold /\ out = <<>> /\ buffer = <<>>

\* C5 as claimed: the queue never holds a Message of level Fatal or Panic.
C5_NoFatalQueued ==
    \A i \in 1..Len(buffer) : buffer[i].Level \notin {FatalLevel, PanicLevel}

C7_EmitThenExit ==
    [][/\ exits' # exits
          => (pc = "exit" /\ call.op = "fatal" /\ exits' = <<1>> /\ ~suppressExit)
       /\ pc = "exit"
          => /\ call.op = "fatal" /\ out' = out /\ pc' = "idle"
             /\ (suppressExit => exits' = <<>>)
             /\ (~suppressExit => exits' = <<1>>)
       /\ (call'.op = "fatal" /\ pc = "idle")
          => (pc' = "exit" /\ exits' = <<>>)]_vars

\* A Fatal call wrote its record to the sinks and then ended the process
C7_Witness ==
    /\ call.op = "fatal" /\ pc = "idle"
    /\ ~suppressExit /\ exits = <<1>>
    /\ Len(out) = Len(writers) /\ out[1].Level = FatalLevel

\* C8 as claimed: a Fatal- or Panic-level record that Msg, Msgf or MsgE wrote
\* to the sinks ends the process unless _suppressExit is on.
C8_FatalLevelTerminates ==
    (/\ call.op = "log" /\ call.level \in {FatalLevel, PanicLevel}
     /\ out # <<>> /\ ~suppressExit)
        => exits # <<>>

\* C9: a call of Debug/Info/Warn/Error (or a variant) that finds the hold flag
\* clear gives every sink exactly one record of its level when that level is
\* at or above the global level and writes nothing when it is below; the one
\* global level decides for all sinks, and nothing is queued.
C9_LiveLevelFilter ==
    (call.op = "log" /\ ~call.held /\ call.level \in NamedLevels)
        => /\ FannedOut(out, writers)
           /\ \A i \in 1..Len(writers) :
                 LET got == Received(out, writers, i)
                 IN  IF call.level >= gLevel
                     THEN Len(got) = 1 /\ got[1].Level = call.level
                     ELSE got = <<>>
           /\ Len(buffer) = call.n

\* A Warn call at global level Warn reached both of two sinks
C9_Witness ==
    /\ call.op = "log" /\ ~call.held
    /\ call.level = WarnLevel /\ gLevel = WarnLevel
    /\ Len(writers) = 2 /\ Len(out) = 2
    /\ out[1].w = writers[1] /\ out[2].w = writers[2]

\* C10 as claimed: outside a Flush in progress the queue is non-empty only
\* while the hold flag is set.
C10_QueueOnlyWhileHolding == buffer # <<>> => hold

\* The calls that go through InitLoggerWithWriter
ReinitOps == {"InitLoggerWithWriter", "InitLogger", "AppendWriter", "RemoveWriter",
              "UpdateWriter"}

\* C11: InitLoggerWithWriter, and InitLogger, AppendWriter, RemoveWriter and
\* UpdateWriter which go through it, leave the queue as it was (the same
\* Messages in the same order) and write nothing to any sink.
C11_ReinitKeepsQueue ==
    [][call'.op \in ReinitOps => (buffer' = buffer /\ out' = <<>>)]_vars

\* A RemoveWriter reinitialised a holding logger with two different Messages
\* queued, and both are still queued in their order
C11_Witness ==
    /\ call.op = "RemoveWriter" /\ call.held /\ ~hold /\ call.n = 2
    /\ Len(buffer) = 2
    /\ buffer[1].Level = ErrorLevel /\ buffer[2].Level = InfoLevel

\* C12: Bypass writes exactly one record to every sink, at level Info and
\* rendered in Default format, at once: also while the hold flag is set and
\* whatever the global level is (Warn, Error and Disabled too); the queue is
\* as it was.
C12_BypassWrites ==
    [][call'.op = "Bypass"
        => /\ FannedOut(out', writers)
           /\ \A i \in 1..Len(writers) :
                 /\ Len(Received(out', writers, i)) = 1
                 /\ out'[i].Level = InfoLevel
                 /\ out'[i].format = Default
           /\ buffer' = buffer]_vars

\* Bypass was called on a holding JSON logger with two sinks, one Message
\* queued and the global level Disabled: each sink got its Default record
C12_Witness ==
    /\ call.op = "Bypass" /\ call.held /\ hold
    /\ gLevel = Disabled /\ format = JSON
    /\ Len(writers) = 2 /\ Len(out) = 2
    /\ out[1].w = writers[1] /\ out[2].w = writers[2]
    /\ out[2].Level = InfoLevel /\ out[2].format = Default
    /\ Len(buffer) = 1 /\ call.n = 1

\* C13 as claimed: a Bypass leaves the logger's format, colour flag and global
\* level, the format and colour flag of every registered sink, the hold flag,
\* the queue and the sink list as they were.
C13_BypassKeepsSinks ==
    [][call'.op = "Bypass"
        => /\ format' = format /\ noColor' = noColor /\ gLevel' = gLevel
           /\ \A i \in 1..Len(writers) :
                 /\ wformat'[writers[i]] = wformat[writers[i]]
                 /\ wnoColor'[writers[i]] = wnoColor[writers[i]]
           /\ hold' = hold /\ buffer' = buffer /\ writers' = writers]_vars

\* C13 amended: a Bypass leaves the logger's format, colour flag and global
\* level, the hold flag, the queue and the sink list as they were, and every
\* registered sink ends with the logger's format and colour flag: what the
\* sink had before, unless its own SetFormatting had given it another one.
C13_BypassRestoresLogger ==
    [][call'.op = "Bypass"
        => /\ format' = format /\ noColor' = noColor /\ gLevel' = gLevel
           /\ \A i \in 1..Len(writers) :
                 /\ wformat'[writers[i]] = format
                 /\ wnoColor'[writers[i]] = noColor
                 /\ (wformat[writers[i]] = format /\ wnoColor[writers[i]] = noColor)
                       => /\ wformat'[writers[i]] = wformat[writers[i]]
                          /\ wnoColor'[writers[i]] = wnoColor[writers[i]]
           /\ hold' = hold /\ buffer' = buffer /\ writers' = writers]_vars

\* Bypass returned on a holding JSON logger with colour on, two sinks and the
\* global level Error: logger and sinks are JSON with colour on again
C13_Witness ==
    /\ call.op = "Bypass" /\ call.held /\ hold
    /\ gLevel = ErrorLevel /\ format = JSON /\ ~noColor
    /\ Len(writers) = 2 /\ Len(out) = 2 /\ out[2].format = Default /\ out[2].noColor
    /\ wformat[writers[2]] = JSON /\ ~wnoColor[writers[2]]

\* C14 as claimed: no writer occurs at two positions of the sink list.
C14_SinksUnique ==
    \A i \in 1..Len(writers), j \in 1..Len(writers) :
        i # j => writers[i] # writers[j]

\* The logger's own state: everything but the record of the call
LoggerState == <<format, noColor, writers, buffer, hold, gLevel, wformat, wnoColor>>

\* C15: RemoveWriter(w) for a writer w that is at no position of the sink list
\* changes nothing: the sink list, the format and colour flag of the logger
\* and of every writer, the hold flag, the queue and the global level are as
\* they were, and nothing is written.
C15_RemoveAbsent ==
    [][\A w \in UserWriters :
          ((\A i \in 1..Len(writers) : writers[i] # w) /\ RemoveWriter(w))
              => (UNCHANGED LoggerState /\ out' = <<>>)]_vars

\* RemoveWriter was called on a holding logger with two sinks for a writer
\* that is not among them: the logger still holds its Message and both sinks
C15_Witness ==
    /\ call.op = "RemoveWriter" /\ call.held /\ hold
    /\ writers = <<Stdout, "w1">>
    /\ Len(buffer) = 1 /\ call.n = 1

\* C16: UpdateWriter(old, new) returns an error and changes nothing when old
\* is at no position of the sink list; otherwise it returns no error and the
\* sink list is the previous one with new at the first position of old and
\* every other position as it was.
C16_UpdateWriter ==
    [][\A old \in UserWriters, new \in UserWriters :
          UpdateWriter(old, new)
              => IF \A i \in 1..Len(writers) : writers[i] # old
                 THEN call'.op = "UpdateWriterError" /\ UNCHANGED LoggerState
                 ELSE /\ call'.op = "UpdateWriter"
                      /\ \E p \in 1..Len(writers) :
                            /\ writers[p] = old
                            /\ \A j \in 1..(p - 1) : writers[j] # old
                            /\ writers' = [writers EXCEPT ![p] = new]]_vars

\* UpdateWriter put w2 at the first position of a list and w1 is still second
C16_Witness ==
    /\ call.op = "UpdateWriter" /\ call.held
    /\ writers = <<"w2", "w1">>

\* C17 as claimed: after InitLogger the sink list is one console writer on
\* standard output with the logger's format and colour enabled.
C17_InitLoggerColour ==
    call.op = "InitLogger"
        => /\ writers = <<Stdout>>
           /\ wformat[Stdout] = format
           /\ ~noColor /\ ~wnoColor[Stdout]

\* C18 as claimed: before any API call the hold flag is off, the queue is
\* empty, the one sink is the console writer in Default format with colour
\* enabled, and the global level is Info.
C18_InitialState ==
    call.op = "init"
        => /\ ~hold /\ buffer = <<>>
           /\ writers = <<Stdout>>
           /\ format = Default /\ wformat[Stdout] = Default
           /\ ~noColor /\ ~wnoColor[Stdout]
           /\ gLevel = InfoLevel

\* The input p without one line feed at its end and, when it then starts with
\* two or more line feeds, without that run
Body(p) ==
    LET hi == IF p # <<>> /\ p[Len(p)] = LF THEN Len(p) - 1 ELSE Len(p)
        run == CHOOSE n \in 0..hi :
                  /\ \A i \in 1..n : p[i] = LF
                  /\ (n < hi => p[n + 1] # LF)
        lo == IF run >= 2 THEN run + 1 ELSE 1
    IN  SubSeq(p, lo, hi)

\* The positions of the line feeds of b, and the k-th of them
Feeds(b) == {i \in 1..Len(b) : b[i] = LF}
Feed(b, k) == CHOOSE i \in Feeds(b) : Cardinality({j \in Feeds(b) : j < i}) = k - 1

\* The lines of b: what stands between its ends and its line feeds
LinesOf(b) ==
    [k \in 1..(Cardinality(Feeds(b)) + 1) |->
        Join(SubSeq(b, IF k = 1 THEN 1 ELSE Feed(b, k - 1) + 1,
                       IF k = Cardinality(Feeds(b)) + 1 THEN Len(b)
                       ELSE Feed(b, k) - 1))]

\* A line that is not empty
NonEmpty(line) == line # ""

\* C19: Buffer.Write(p) returns (len(p), nil) and appends to the Buffer, in
\* order, the lines of p taken without one line feed at its end and without a
\* run of two or more line feeds at its start: all of them, the empty ones
\* too, when the format of the global logger is Default, and the non-empty
\* ones otherwise, whatever the format field of the writer itself is.
C19_BufferWrite ==
    [][call'.op = "BufferWrite"
        => /\ ret' = [n |-> Len(arg'), err |-> NoErr]
           /\ Visible(heap', store')
                 = Visible(heap, store)
                   \o (IF format = Default THEN LinesOf(Body(arg'))
                       ELSE SelectSeq(LinesOf(Body(arg')), NonEmpty))]_vars

\* A four-byte input with an empty line in its middle was written while the
\* logger was in Default format and the writer itself in JSON: three lines
C19_Witness ==
    /\ call.op = "BufferWrite" /\ ret.n = 4
    /\ arg = <<"a", LF, LF, "a">>
    /\ format = Default /\ wformat["w1"] = JSON
    /\ Visible(heap, store) = <<"a", "", "a">>

\* C20 as claimed: a Write to the writer leaves the elements of the slice
\* Buffer() returned as they were, and an assignment or an append to that
\* slice leaves the lines stored in the writer as they were.
C20_SnapshotIsCopy ==
    [][/\ call'.op = "BufferWrite"
          => Visible(heap', snap') = Visible(heap, snap)
       /\ call'.op \in {"SnapSet", "SnapAppend"}
          => Visible(heap', store') = Visible(heap, store)]_vars

\* C22: ParseFormat is total and ignores letter case: given the String() of
\* Default, Pretty or JSON in any mix of upper and lower case it returns that
\* format and no error, and given anything else, the empty string too, it
\* returns Default and an error.
C22_ParseFormat ==
    call.op = "ParseFormat"
    => /\ \A f \in Formats :
            res.arg \in Cases(FormatString(f))
            => res.value = f /\ res.err = NoErr
       /\ (\A f \in Formats : res.arg \notin Cases(FormatString(f)))
            => res.value = Default /\ res.err # NoErr

\* ParseFormat was given "JsOn" and returned JSON without an error
C22_Witness ==
    /\ call.op = "ParseFormat"
    /\ res.arg = <<"J", "s", "O", "n">>
    /\ res.value = JSON /\ res.err = NoErr

\* The levels the test table logs at
TableLevels == {DebugLevel, InfoLevel, WarnLevel, ErrorLevel, FatalLevel}

\* C23: UnmarshalLog of the line a JSON writer got for a record of level
\* Debug, Info, Warn, Error or Fatal, with or without an error, succeeds and
\* returns the record's level, its message and the text of its error, the
\* empty text when it has none.
C23_UnmarshalRoundTrip ==
    (call.op = "UnmarshalLog" /\ res.of.Level \in TableLevels)
    => /\ res.err = NoErr
       /\ res.log.Level = res.of.Level
       /\ res.log.Message = res.of.Message
       /\ res.log.Error = (IF res.of.err = NoErr THEN "" ELSE res.of.err)

\* The line of a Fatal record with an error was parsed back
C23_Witness ==
    /\ call.op = "UnmarshalLog"
    /\ res.of.Level = FatalLevel /\ res.of.err = "e"
    /\ res.err = NoErr /\ res.log.Level = FatalLevel /\ res.log.Error = "e"

\* The levels zerolog has a name for and makes events of
TokenLevels == {TraceLevel, DebugLevel, InfoLevel, WarnLevel, ErrorLevel,
                FatalLevel, PanicLevel}

\* The level column of the Default format, as the documentation prints it
DefaultColumn(level) ==
    CASE level = TraceLevel -> "TRACE  "
      [] level = DebugLevel -> "DEBUG  "
      [] level = InfoLevel -> ""
      [] level = WarnLevel -> "WARN   "
      [] level = ErrorLevel -> "ERROR  "
      [] level = FatalLevel -> "FATAL  "
      [] level = PanicLevel -> "PANIC  "

\* The characters of a line that are not escape sequences
IsText(c) == c \notin {"ESC[Nm", "ESC[0m"}

LineOf(e, t) == Join(SubSeq(Rendered(e, t), 1, Len(Rendered(e, t)) - 1))

\* C21: Reset() leaves the BufferedWriter with no captured lines, with the
\* format and the colour flag it had and on the logger's list as before; a
\* leveled call adds to the captured lines one line for every write the
\* writer got, and no other operation changes them: after a Reset() the
\* Buffer holds the records emitted since, and only those.
C21_Reset ==
    [][/\ call'.op = "Reset"
          => /\ Visible(heap', store') = <<>>
             /\ wformat'["w1"] = wformat["w1"]
             /\ wnoColor'["w1"] = wnoColor["w1"]
             /\ writers' = writers
       /\ call'.op = "log"
          => \E t \in Times :
                Visible(heap', store')
                   = Visible(heap, store)
                     \o [i \in 1..Len(ToBuffer(out')) |-> LineOf(ToBuffer(out')[i], t)]
       /\ call'.op \notin {"Reset", "log"}
          => Visible(heap', store') = Visible(heap, store)]_vars

\* A caller took the two lines the registered writer had captured, the writer
\* was reset, and the record logged since is the one line the writer holds
C21_Witness ==
    /\ call.op = "log" /\ Len(out) = 2 /\ out[2].w = "w1"
    /\ snap.len = 2 /\ store.len = 1 /\ store.a # snap.a
    /\ \E t \in Times : Visible(heap, store) = <<LineOf(out[2], t)>>

\* C25 as claimed: Logger.Write(p) makes one record of every line of p, in
\* order, the empty lines too when the logger's format is Default and the
\* other lines only when it is Pretty or JSON, whatever minimum level lets
\* the records through.
C25_WriteByFormat ==
    [][(call'.op = "LoggerWrite" /\ gLevel <= LoggerLevel)
        => [j \in 1..Len(out') |-> out'[j].Message]
              = (IF format = Default THEN Split(arg')
                 ELSE SelectSeq(Split(arg'), NonEmpty))]_vars

\* The record of the concurrent call reached no sink and is not queued
Lost ==
    /\ \A j \in 1..Len(out) : out[j].Message # "c"
    /\ \A i \in 1..Len(buffer) : buffer[i].Message # "c"

\* C26: a leveled call that runs at once with Flush() can lose its record:
\* when both have returned, the record has reached no sink and is not queued
\* exactly when the call read hold as true and stored the queue after the
\* loop of Flush() and before Flush() replaced the queue.
C26_LostInWindow ==
    (th.f = "done" /\ th.l = "done")
    => (Lost <=> (th.saw /\ th.at = "reset"))

\* The call read hold as true, Flush() replayed the queued record, the call
\* appended, Flush() emptied the queue: the record of the call is gone
C26_Witness ==
    /\ th.f = "done" /\ th.l = "done"
    /\ th.saw /\ th.at = "reset"
    /\ \E j \in 1..Len(out) : out[j].Message = "m"
    /\ Lost /\ buffer = <<>>

\* C27 as claimed: InitLogger, InitLoggerWithWriter, AppendWriter, RemoveWriter
\* and UpdateWriter leave the hold flag and the minimum level as they were,
\* and no call but Flush() takes the logger out of holding.
C27_ReinitKeepsHold ==
    [][/\ call'.op \in ReinitOps => hold' = hold /\ gLevel' = gLevel
       /\ (hold /\ ~hold') => call'.op = "Flush"]_vars

\* C28: Flush() judges a queued record by the state it finds: the record is
\* written iff its level is at or above the minimum level at the Flush(), it
\* is then written to every writer on the list at the Flush(), and every write
\* of the Flush() is in the format and colour its writer has at the Flush(),
\* whatever the level, the format and the list were when the record was queued.
C28_JudgedAtFlush ==
    [][call'.op = "Flush"
        => /\ \A i \in 1..Len(buffer) :
                 /\ (\E j \in 1..Len(out') : Rec(out'[j]) = buffer[i])
                       <=> buffer[i].Level >= gLevel
                 /\ buffer[i].Level >= gLevel
                       => \A k \in 1..Len(writers) :
                             \E j \in 1..Len(out') :
                                Rec(out'[j]) = buffer[i] /\ out'[j].w = writers[k]
           /\ \A j \in 1..Len(out') :
                 /\ out'[j].format = wformat[out'[j].w]
                 /\ out'[j].noColor = wnoColor[out'[j].w]]_vars

\* A record was queued while the list had one writer; a second writer was
\* appended, which also took the logger out of holding; the Flush() wrote
\* the record to both writers in JSON, the format at the Flush()
C28_Witness ==
    /\ call.op = "Flush" /\ call.n = 1 /\ ~call.held
    /\ format = JSON /\ Len(writers) = 2
    /\ \A k \in 1..2 :
          \E j \in 1..Len(out) :
             /\ out[j].Level = InfoLevel /\ out[j].Message = "m"
             /\ out[j].w = writers[k] /\ out[j].format = JSON

\* C29: the list of writers is never empty: a reinitialisation with no writer
\* puts one console writer on os.Stdout on it, in the logger's format and
\* colour, so RemoveWriter of the only writer on the list leaves a list of
\* that one console writer.
C29_SinksNeverEmpty ==
    /\ Len(writers) >= 1
    /\ [][/\ Len(writers') >= 1
          /\ \A w \in UserWriters :
                (writers = <<w>> /\ RemoveWriter(w))
                => /\ writers' = <<Stdout>>
                   /\ wformat'[Stdout] = format
                   /\ wnoColor'[Stdout] = noColor]_vars

\* The last writer was removed from a JSON logger without colour: the list
\* is one console writer in JSON without colour
C29_Witness ==
    /\ call.op = "RemoveWriter"
    /\ writers = <<Stdout>>
    /\ format = JSON /\ noColor
    /\ wformat[Stdout] = JSON /\ wnoColor[Stdout]

\* C30: between API calls every writer on the list has the format and the
\* colour flag of the logger, after any sequence of InitLogger,
\* InitLoggerWithWriter, SetFormatting, AppendWriter, RemoveWriter,
\* UpdateWriter, Bypass and Reset, whatever format a writer was constructed in.
C30_SinksFollowLogger ==
    Running
    => \A i \in 1..Len(writers) :
          /\ wformat[writers[i]] = format
          /\ wnoColor[writers[i]] = noColor

\* The writer "w1", constructed in JSON, was appended to the Default logger
\* and is in Default; "w2", not on the list, is in JSON as constructed
C30_Witness ==
    /\ call.op = "AppendWriter"
    /\ writers = <<Stdout, "w1">>
    /\ format = Default /\ wformat["w1"] = Default
    /\ wformat["w2"] = JSON

\* C31: SetFormatting(f, c) changes the logger in place: afterwards the
\* logger's format is f and its colour flag c, every writer on the list has
\* format f and colour flag c, and the list, the hold flag, the queue and the
\* minimum level are what they were.
C31_SetFormattingInPlace ==
    [][\A f \in Formats, c \in BOOLEAN :
          SetFormatting(f, c)
          => /\ format' = f /\ noColor' = c
             /\ \A i \in 1..Len(writers') :
                   /\ wformat'[writers'[i]] = f
                   /\ wnoColor'[writers'[i]] = c
             /\ writers' = writers
             /\ hold' = hold
             /\ buffer' = buffer
             /\ gLevel' = gLevel]_vars

\* SetFormatting(JSON, false) on a holding logger with one queued record, two
\* writers and minimum level Error: all of that is still there, and both
\* writers are in JSON with colour
C31_Witness ==
    /\ call.op = "SetFormatting" /\ call.held /\ call.n = 1
    /\ format = JSON /\ ~noColor
    /\ hold /\ Len(buffer) = 1 /\ gLevel = ErrorLevel
    /\ writers = <<Stdout, "w1">>
    /\ \A i \in 1..2 : wformat[writers[i]] = JSON /\ ~wnoColor[writers[i]]
====
